---- MODULE Spec2Model ----
(***************************************************************************)
(* A model of the foodgram recipe backend (backend/api): the relational    *)
(* tables with their uniqueness and check constraints (models.py), the     *)
(* recipe write path and read projection (serializers.py) and the request  *)
(* handlers (views.py).                                                    *)
(***************************************************************************)
EXTENDS Integers, Sequences, FiniteSets, TLC

\* ------------------------------------------------------------------ bounds
\* Largest number of Recipe rows ever created (ids 1..MaxRecipes).
MaxRecipes == 1
\* Amounts submitted in a payload range over 0..MaxAmount.
MaxAmount == 2
\* Longest ingredient list and longest tag list of a payload.
MaxLen == 2
\* Cooking times submitted in a payload range over 0..MaxTime.
MaxTime == 1
\* Write requests followed statement by statement in one run.
MaxWrites == 2
\* Clients sending favorite and shopping_cart requests at the same time.
NClients == 2
\* Recipes stored when shopping lists are downloaded.
CartRecipes == 2

\* ---------------------------------------------------------------- fixtures
\* Rows the API cannot change: the users, the Tag table, the Ingredient table.
Anonymous == "anonymous"
Users == {"ann", "bob", "cat"}
\* The users with is_staff set.
Staff == {"cat"}
Tags == {"breakfast", "lunch"}
Ingredient ==
    { [id |-> 1, name |-> "flour", measurement_unit |-> "g"],
      [id |-> 2, name |-> "flour", measurement_unit |-> "kg"],
      [id |-> 3, name |-> "salt", measurement_unit |-> "g"] }
IngredientIds == {i.id : i \in Ingredient}
IngredientRow(i) == CHOOSE x \in Ingredient : x.id = i
RecipeIds == 1..MaxRecipes

\* --------------------------------------------------------------- utilities
\* An optional value: <<>> is Python's None, <<x>> a value that is present.
None == <<>>
Some(x) == <<x>>
IsNone(o) == o = <<>>
Range(s) == {s[k] : k \in DOMAIN s}
SeqsUpTo(S, n) == UNION {[1..k -> S] : k \in 0..n}
Option(S) == {None} \cup {Some(x) : x \in S}
RECURSIVE SumAmounts(_)
SumAmounts(rows) ==
    IF rows = {} THEN 0
    ELSE LET x == CHOOSE y \in rows : TRUE IN x.amount + SumAmounts(rows \ {x})

\* ------------------------------------------------------------------- state
VARIABLES
    recipes,            \* Recipe table: rows [id, author, cooking_time]
    recipeIngredients,  \* RecipeIngredient table: rows [recipe, ingredient, amount]
    recipeTags,         \* Recipe.tags through table: rows [recipe, tag]
    nextId,             \* next primary key of the Recipe table
    links,              \* Favorite and ShoppingCart tables: rows per (user, recipe)
    follow,             \* Follow table: rows per (user, following)
    req,                \* the request being answered
    resp,               \* the response to it
    before,             \* the tables as the request found them
    wr,                 \* a write request in progress, statement by statement
    rd,                 \* a read request in progress, query by query
    seen,               \* what was committed of the recipe while it is being read
    writes,             \* write requests begun statement by statement
    lk,                 \* favorite and shopping_cart requests in progress, per client
    up                  \* update requests in progress, per client

dbVars == <<recipes, recipeIngredients, recipeTags, nextId, links, follow>>
apiVars == <<req, resp, before>>
txVars == <<wr, rd, seen, writes>>
vars == <<recipes, recipeIngredients, recipeTags, nextId, links, follow,
          req, resp, before, wr, rd, seen, writes, lk, up>>

\* The stored tables as one value, the unit a transaction commits or rolls back.
DB == [recipes |-> recipes, recipeIngredients |-> recipeIngredients,
       recipeTags |-> recipeTags, nextId |-> nextId, links |-> links,
       follow |-> follow]
\* A link table holds, per pair with rows, the number of its rows.
NoRows == [p \in {} |-> 0]
EmptyDB == [recipes |-> {}, recipeIngredients |-> {}, recipeTags |-> {}, nextId |-> 1,
            links |-> [Favorite |-> NoRows, ShoppingCart |-> NoRows],
            follow |-> NoRows]
Store(D) ==
    /\ recipes' = D.recipes
    /\ recipeIngredients' = D.recipeIngredients
    /\ recipeTags' = D.recipeTags
    /\ nextId' = D.nextId
    /\ links' = D.links
    /\ follow' = D.follow
\* The rows of a link table for a pair: filter(...).count(), create, delete.
Rows(T, a, b) == IF <<a, b>> \in DOMAIN T THEN T[<<a, b>>] ELSE 0
InsertRow(T, a, b) ==
    [p \in DOMAIN T \cup {<<a, b>>} |-> IF p = <<a, b>> THEN Rows(T, a, b) + 1 ELSE T[p]]
\* instance.delete() that deletes nothing.
DeleteNoRows(T, a, b) == T
DeleteRows(T, a, b) == [p \in DOMAIN T \ {<<a, b>>} |-> T[p]]

RecipeExists(D, id) == \E r \in D.recipes : r.id = id
RecipeRow(D, id) == CHOOSE r \in D.recipes : r.id = id
\* RecipeIngredient.objects.filter(recipe=...)
IngredientsOf(D, id) == {x \in D.recipeIngredients : x.recipe = id}
\* recipe.tags.all()
TagsOf(D, id) == {x.tag : x \in {y \in D.recipeTags : y.recipe = id}}

\* ------------------------------------------------------------- validation
\* RecipeIngredientWriteSerializer.amount: IntegerField(min_value=1).
ValidAmount(item) == item.amount >= 1
\* RecipeWriteSerializer.cooking_time: IntegerField(min_value=1).
ValidCookingTime(t) == t >= 1
\* validate_ingredients without its membership test.
ValidateIngredientsNoRepeatTest(ingredients) == Len(ingredients) # 0
\* validate_ingredients: at least one item, no ingredient twice.
ValidateIngredients(ingredients) ==
    /\ Len(ingredients) # 0
    /\ \A j, k \in DOMAIN ingredients : j < k => ingredients[j].id # ingredients[k].id
\* validate_tags: at least one tag, len(tags) = len(set(tags)).
ValidateTags(tags) ==
    /\ Len(tags) # 0
    /\ Len(tags) = Cardinality(Range(tags))

\* serializer.is_valid: the fields in error. A field left out is an error
\* unless the update is partial (PATCH); each field present is validated by
\* its own field (the items' amounts) and then by its validate_<field>.
FieldErrors(data, partial) ==
    {f \in {"tags", "ingredients", "cooking_time"} :
        CASE f = "tags" ->
                IF IsNone(data.tags) THEN ~partial
                ELSE ~ValidateTags(data.tags[1])
          [] f = "ingredients" ->
                IF IsNone(data.ingredients) THEN ~partial
                ELSE \/ \E k \in DOMAIN data.ingredients[1] :
                            ~ValidAmount(data.ingredients[1][k])
                     \/ ~ValidateIngredients(data.ingredients[1])
          [] OTHER ->
                IF IsNone(data.cooking_time) THEN ~partial
                ELSE ~ValidCookingTime(data.cooking_time[1])}

\* -------------------------------------------------- the write path's steps
\* Meta.read_only_fields, and author declared read_only=True.
ReadOnlyFields == {"id", "author"}
\* A serializer whose validated data keeps every field of the payload.
AllData(data) == data
\* validated_data: the payload's writable fields; a read-only field sent in
\* the payload is dropped.
WritableData(data) == [f \in DOMAIN data \ ReadOnlyFields |-> data[f]]
\* Whether validated data carries a value for a field.
Supplied(data, f) == f \in DOMAIN data /\ ~IsNone(data[f])
\* Recipe.objects.create(**validated_data): a new row under the next key.
InsertRecipe(D, author, data) ==
    [D EXCEPT !.recipes = @ \cup {[id |-> D.nextId, author |-> author,
                                   cooking_time |-> data.cooking_time[1]]},
              !.nextId = @ + 1]
\* super().update(instance, validated_data): setattr of the scalar fields
\* supplied, then instance.save().
SaveRecipe(D, id, data) ==
    [D EXCEPT !.recipes =
        {IF r.id = id
         THEN [r EXCEPT !.cooking_time = IF IsNone(data.cooking_time) THEN @
                                         ELSE data.cooking_time[1],
                        !.author = IF Supplied(data, "author") THEN data.author[1] ELSE @]
         ELSE r : r \in @}]
\* A delete without its filter(recipe=...): the rows of every recipe go.
DeleteEveryRecipesIngredients(D, id) == [D EXCEPT !.recipeIngredients = {}]
\* An update that does not clear the rows it replaces.
DeleteNothing(D, id) == D
\* RecipeIngredient.objects.filter(recipe=recipe).delete()
DeleteRecipeIngredients(D, id) ==
    [D EXCEPT !.recipeIngredients = {x \in @ : x.recipe # id}]
\* The rows built from the validated items.
NewRows(id, items) ==
    {[recipe |-> id, ingredient |-> items[k].id, amount |-> items[k].amount]
        : k \in DOMAIN items}
\* unique_recipe_ingredient: the insert is refused (IntegrityError) when two
\* rows of the batch, or one of them and a stored row, share (recipe, ingredient).
UniqueRecipeIngredient(D, id, items) ==
    /\ \A j, k \in DOMAIN items : j < k => items[j].id # items[k].id
    /\ \A k \in DOMAIN items :
          \A x \in D.recipeIngredients :
              ~(x.recipe = id /\ x.ingredient = items[k].id)
\* A batch that loses its last row.
BulkCreateDropsLast(D, id, items) ==
    [D EXCEPT !.recipeIngredients = @ \cup NewRows(id, SubSeq(items, 1, Len(items) - 1))]
\* RecipeIngredient.objects.bulk_create(recipe_ingredients)
BulkCreate(D, id, items) ==
    [D EXCEPT !.recipeIngredients = @ \cup NewRows(id, items)]
\* recipe.tags.set(tags_data)
SetTags(D, id, tags) ==
    [D EXCEPT !.recipeTags =
        {x \in @ : x.recipe # id} \cup {[recipe |-> id, tag |-> t] : t \in Range(tags)}]

\* The statements of RecipeWriteSerializer.create, in order.
CreateSteps == <<"insert", "delete", "bulk_create", "set_tags">>
\* The statements of RecipeWriteSerializer.update: the related rows are
\* replaced only when the payload supplies them.
UpdateSteps(data) ==
    <<"save">>
    \o (IF IsNone(data.ingredients) THEN <<>> ELSE <<"delete", "bulk_create">>)
    \o (IF IsNone(data.tags) THEN <<>> ELSE <<"set_tags">>)

\* One statement's effect on the tables; c = [id, author, data].
StepEffect(D, step, c) ==
    CASE step = "insert" -> InsertRecipe(D, c.author, c.data)
      [] step = "save" -> SaveRecipe(D, c.id, c.data)
      [] step = "delete" -> DeleteRecipeIngredients(D, c.id)
      [] step = "bulk_create" -> BulkCreate(D, c.id, c.data.ingredients[1])
      [] OTHER -> SetTags(D, c.id, c.data.tags[1])
\* A statement that raises by itself: Recipe(author=AnonymousUser) is a
\* ValueError, a batch breaking unique_recipe_ingredient an IntegrityError.
StepRaises(D, step, c) ==
    \/ step = "insert" /\ c.author = Anonymous
    \/ step = "bulk_create" /\ ~UniqueRecipeIngredient(D, c.id, c.data.ingredients[1])

\* The statements run from the k-th on, until one raises; fault > 0 numbers a
\* statement that fails for a reason outside the program (the storage layer).
RECURSIVE Run(_, _, _, _, _)
Run(D, steps, k, fault, c) ==
    IF k > Len(steps) THEN [db |-> D, ok |-> TRUE]
    ELSE IF k = fault \/ StepRaises(D, steps[k], c) THEN [db |-> D, ok |-> FALSE]
    ELSE Run(StepEffect(D, steps[k], c), steps, k + 1, fault, c)

\* create and update without the decorator: every statement commits by itself.
TransactionMissing == FALSE
\* @transaction.atomic on create and on update.
TransactionAtomic == TRUE
\* What is stored once the block is left: everything, or on an exception what
\* was stored before it.
Outcome(entry, run) ==
    IF run.ok \/ ~TransactionAtomic THEN run.db ELSE entry

\* ------------------------------------------------------ the read projection
\* RecipeIngredientReadSerializer: one entry per RecipeIngredient row.
IngredientEntry(x) ==
    [id |-> x.ingredient, name |-> IngredientRow(x.ingredient).name,
     measurement_unit |-> IngredientRow(x.ingredient).measurement_unit,
     amount |-> x.amount]
\* RecipeReadSerializer (and RecipeWriteSerializer.to_representation).
ReadProjection(D, id) ==
    [id |-> id, author |-> RecipeRow(D, id).author,
     cooking_time |-> RecipeRow(D, id).cooking_time,
     tags |-> TagsOf(D, id),
     ingredients |-> {IngredientEntry(x) : x \in IngredientsOf(D, id)}]

\* ---------------------------------------------------------------- requests
NoReq == [op |-> "none", caller |-> Anonymous, id |-> 0, data |-> None, fault |-> 0]
NoResp == [status |-> 0, errors |-> {}, body |-> None]
Response(status, errors, body) == [status |-> status, errors |-> errors, body |-> body]

\* has_object_permission that also lets a staff user through.
HasObjectPermissionOrStaff(caller, obj) ==
    caller # Anonymous /\ (obj.author = caller \/ caller \in Staff)
\* IsOwnerOrReadOnly.has_object_permission for an unsafe method.
HasObjectPermission(caller, obj) ==
    caller # Anonymous /\ obj.author = caller
\* permission_denied: not authenticated, or forbidden.
Denied(caller) == IF caller = Anonymous THEN 401 ELSE 403

\* Payloads: each field may be left out.
PayloadIngredientIds == {1, 2}
Items == [id : PayloadIngredientIds, amount : 0..MaxAmount]
Payloads ==
    [ingredients : Option(SeqsUpTo(Items, MaxLen)),
     tags : Option(SeqsUpTo(Tags, MaxLen)),
     cooking_time : Option(0..MaxTime)]

\* A request handled from arrival to response: what it stores, what it answers.
Handled(request, D, response) ==
    /\ req = NoReq
    /\ req' = request
    /\ before' = DB
    /\ Store(D)
    /\ resp' = response
    /\ UNCHANGED <<txVars, lk, up>>

\* POST /recipes/: RecipeViewSet.create, perform_create, the serializer's
\* create and the response re-read through the read projection.
RecipeCreate(caller, data, fault) ==
    LET errors == FieldErrors(data, FALSE)
        c == [id |-> nextId, author |-> caller, data |-> WritableData(data)]
        run == Run(DB, CreateSteps, 1, fault, c)
        after == Outcome(DB, run)
        request == [op |-> "create", caller |-> caller, id |-> 0,
                    data |-> Some(data), fault |-> fault]
    IN  IF errors # {}
        THEN /\ fault = 0
             /\ Handled(request, DB, Response(400, errors, None))
        ELSE /\ nextId <= MaxRecipes
             /\ Handled(request, after,
                        IF run.ok
                        THEN Response(201, {}, Some(ReadProjection(after, c.id)))
                        ELSE Response(500, {}, None))

\* PUT or PATCH /recipes/{id}/: get_object (404, then the object permission),
\* validation, the serializer's update, the response re-read.
RecipeUpdate(caller, id, data, partial, fault) ==
    LET errors == FieldErrors(data, partial)
        c == [id |-> id, author |-> caller, data |-> WritableData(data)]
        run == Run(DB, UpdateSteps(data), 1, fault, c)
        after == Outcome(DB, run)
        request == [op |-> IF partial THEN "partial_update" ELSE "update",
                    caller |-> caller, id |-> id, data |-> Some(data), fault |-> fault]
        refused(r) == fault = 0 /\ Handled(request, DB, r)
    IN  IF ~RecipeExists(DB, id) THEN refused(Response(404, {}, None))
        ELSE IF ~HasObjectPermission(caller, RecipeRow(DB, id))
             THEN refused(Response(Denied(caller), {}, None))
        ELSE IF errors # {} THEN refused(Response(400, errors, None))
        ELSE Handled(request, after,
                     IF run.ok
                     THEN Response(200, {}, Some(ReadProjection(after, id)))
                     ELSE Response(500, {}, None))

\* A writer and a reader between requests.
WriterIdle == [pc |-> "idle", op |-> "none", id |-> 0, caller |-> Anonymous,
               data |-> None, k |-> 0, work |-> EmptyDB]
ReaderIdle == [pc |-> "idle", id |-> 0, tags |-> {}, ingredients |-> {}]
\* The clients of the favorite and shopping_cart endpoints, each between requests.
Clients == 1..NClients
ClientIdle == [pc |-> "idle", method |-> "none", model |-> "none",
               user |-> Anonymous, recipe |-> 0, status |-> 0]
\* A client of the update endpoint between requests.
UpdaterIdle == [pc |-> "idle", id |-> 0, list |-> <<>>, target |-> {}, del |-> {},
                ins |-> {}, overlap |-> FALSE, status |-> 0]

\* ------------------------------------------------- the API, request by request
Init ==
    /\ recipes = {} /\ recipeIngredients = {} /\ recipeTags = {} /\ nextId = 1
    /\ links = EmptyDB.links /\ follow = NoRows
    /\ req = NoReq /\ resp = NoResp /\ before = EmptyDB
    /\ wr = WriterIdle /\ rd = ReaderIdle /\ seen = {} /\ writes = 0
    /\ lk = [c \in Clients |-> ClientIdle]
    /\ up = [c \in Clients |-> UpdaterIdle]

\* The response is returned and the client is free to send its next request.
ReturnResponse ==
    /\ req # NoReq
    /\ req' = NoReq
    /\ resp' = NoResp
    /\ before' = EmptyDB
    /\ UNCHANGED <<dbVars, txVars, lk, up>>

\* Who sends the write requests: an author, another user, nobody logged in.
WriteCallers == {"ann", "bob", Anonymous}
Create ==
    /\ req = NoReq
    /\ \E caller \in WriteCallers, data \in Payloads, fault \in 0..Len(CreateSteps) :
          RecipeCreate(caller, data, fault)
\* The API's update is PATCH /recipes/{id}/, of a recipe that exists or not.
Update ==
    /\ req = NoReq
    /\ \E caller \in WriteCallers, id \in 1..(MaxRecipes + 1), data \in Payloads :
          \E fault \in 0..Len(UpdateSteps(data)) :
              RecipeUpdate(caller, id, data, TRUE, fault)

Next == Create \/ Update \/ ReturnResponse

Spec == Init /\ [][Next]_vars

\* ------------------------------------- a write and a read, step by step
\* What a read of recipe id shows of its related rows.
View(D, id) ==
    [tags |-> TagsOf(D, id),
     ingredients |-> {IngredientEntry(x) : x \in IngredientsOf(D, id)}]
\* The commits a read in progress overlaps.
Overlap(D) ==
    IF rd.pc \in {"tags", "ingredients"} THEN seen \cup {View(D, rd.id)} ELSE seen

\* Write requests that get as far as the transaction: complete, valid payloads.
TxCallers == {"ann"}
TxPayloads == {d \in Payloads : FieldErrors(d, FALSE) = {}}
TxSteps(w) == IF w.op = "create" THEN CreateSteps ELSE UpdateSteps(w.data)
TxContext(w) == [id |-> w.id, author |-> w.caller, data |-> w.data]

\* The request is accepted and the atomic block entered.
WriteBegin(caller, op, id, data) ==
    /\ wr.pc = "idle"
    /\ writes < MaxWrites
    /\ IF op = "create"
       THEN id = nextId /\ nextId <= MaxRecipes
       ELSE RecipeExists(DB, id) /\ HasObjectPermission(caller, RecipeRow(DB, id))
    /\ wr' = [pc |-> "tx", op |-> op, id |-> id, caller |-> caller,
              data |-> data, k |-> 1, work |-> DB]
    /\ writes' = writes + 1
    /\ UNCHANGED <<dbVars, apiVars, rd, seen, lk, up>>

\* The block's next statement runs. Inside a transaction its effect stays
\* with the writer; without one it is stored at once.
WriteStatement ==
    /\ wr.pc = "tx"
    /\ wr.k <= Len(TxSteps(wr))
    /\ ~StepRaises(wr.work, TxSteps(wr)[wr.k], TxContext(wr))
    /\ LET D == StepEffect(wr.work, TxSteps(wr)[wr.k], TxContext(wr))
       IN  /\ wr' = [wr EXCEPT !.k = @ + 1, !.work = D]
           /\ IF TransactionAtomic
              THEN UNCHANGED <<dbVars, seen>>
              ELSE Store(D) /\ seen' = Overlap(D)
    /\ UNCHANGED <<apiVars, rd, writes, lk, up>>

\* The next statement raises (by itself, or the storage layer fails): the
\* block is left by the exception and the transaction rolled back.
WriteFail ==
    /\ wr.pc = "tx"
    /\ wr.k <= Len(TxSteps(wr))
    /\ wr' = WriterIdle
    /\ UNCHANGED <<dbVars, apiVars, rd, seen, writes, lk, up>>

\* The block is left normally: the transaction commits.
WriteCommit ==
    /\ wr.pc = "tx"
    /\ wr.k > Len(TxSteps(wr))
    /\ Store(wr.work)
    /\ seen' = Overlap(wr.work)
    /\ wr' = [wr EXCEPT !.pc = "respond"]
    /\ UNCHANGED <<apiVars, rd, writes, lk, up>>

\* to_representation re-reads the recipe and the response is returned.
WriteRespond ==
    /\ wr.pc = "respond"
    /\ wr' = WriterIdle
    /\ UNCHANGED <<dbVars, apiVars, rd, seen, writes, lk, up>>

\* GET /recipes/{id}/: get_object selects the Recipe row (404 without one).
ReadRow(id) ==
    /\ rd.pc = "idle"
    /\ RecipeExists(DB, id)
    /\ rd' = [pc |-> "tags", id |-> id, tags |-> {}, ingredients |-> {}]
    /\ seen' = {View(DB, id)}
    /\ UNCHANGED <<dbVars, apiVars, wr, writes, lk, up>>
\* RecipeReadSerializer.tags: the query behind recipe.tags.all().
ReadTags ==
    /\ rd.pc = "tags"
    /\ rd' = [rd EXCEPT !.pc = "ingredients", !.tags = TagsOf(DB, rd.id)]
    /\ UNCHANGED <<dbVars, apiVars, wr, seen, writes, lk, up>>
\* RecipeReadSerializer.ingredients: the query behind recipe.recipeingredients.
ReadIngredients ==
    /\ rd.pc = "ingredients"
    /\ rd' = [rd EXCEPT !.pc = "done",
                        !.ingredients = View(DB, rd.id).ingredients]
    /\ UNCHANGED <<dbVars, apiVars, wr, seen, writes, lk, up>>
\* The response is returned.
ReadReturn ==
    /\ rd.pc = "done"
    /\ rd' = ReaderIdle
    /\ seen' = {}
    /\ UNCHANGED <<dbVars, apiVars, wr, writes, lk, up>>

TxWrite ==
    \/ \E caller \in TxCallers, data \in TxPayloads :
          \/ WriteBegin(caller, "create", nextId, data)
          \/ \E id \in RecipeIds : WriteBegin(caller, "partial_update", id, data)
    \/ WriteStatement
    \/ WriteFail
    \/ WriteCommit
    \/ WriteRespond
TxRead ==
    \/ \E id \in RecipeIds : ReadRow(id)
    \/ ReadTags
    \/ ReadIngredients
    \/ ReadReturn

NextTx == TxWrite \/ TxRead

SpecTx == Init /\ [][NextTx]_vars

\* --------------------- favorite and shopping_cart requests, step by step
\* One recipe, stored by an earlier create.
SeedDB ==
    [EmptyDB EXCEPT
        !.recipes = {[id |-> 1, author |-> "ann", cooking_time |-> 1]},
        !.recipeIngredients = {[recipe |-> 1, ingredient |-> 1, amount |-> 1]},
        !.recipeTags = {[recipe |-> 1, tag |-> "breakfast"]},
        !.nextId = 2]
LinkModels == {"Favorite", "ShoppingCart"}
LinkCallers == {"ann", "bob", Anonymous}
\* Primary keys asked for: the recipe stored, and one that is not.
LinkPks == {1, 2}

\* unique_favorite, unique_shopping_cart_item: no second row for (user, recipe).
UniqueLinkMissing(T, user, recipe) == TRUE
UniqueLink(T, user, recipe) == Rows(T, user, recipe) = 0

\* The action's permission (IsAuthenticated), then get_object_or_404(Recipe, pk).
LinkBegin(c, caller, pk, model, method) ==
    /\ lk[c].pc = "idle"
    /\ lk' = [lk EXCEPT ![c] =
                [pc |-> IF caller = Anonymous \/ ~RecipeExists(DB, pk)
                        THEN "done" ELSE "check",
                 method |-> method, model |-> model, user |-> caller, recipe |-> pk,
                 status |-> IF caller = Anonymous THEN 401
                            ELSE IF ~RecipeExists(DB, pk) THEN 404 ELSE 0]]
    /\ UNCHANGED <<dbVars, apiVars, txVars, up>>

\* instance.exists(): POST answers 400 when the link is there, DELETE when it
\* is not; otherwise the request goes on to its insert or delete.
LinkCheck(c) ==
    /\ lk[c].pc = "check"
    /\ LET there == Rows(links[lk[c].model], lk[c].user, lk[c].recipe) > 0
       IN  lk' = [lk EXCEPT ![c] =
                    IF lk[c].method = "POST"
                    THEN IF there THEN [@ EXCEPT !.pc = "done", !.status = 400]
                         ELSE [@ EXCEPT !.pc = "create"]
                    ELSE IF ~there THEN [@ EXCEPT !.pc = "done", !.status = 400]
                         ELSE [@ EXCEPT !.pc = "delete"]]
    /\ UNCHANGED <<dbVars, apiVars, txVars, up>>

\* related_model.objects.create(user=user, recipe=recipe): a row is stored and
\* 201 returned, or the constraint refuses it and the IntegrityError, which the
\* view does not catch, leaves as a server error.
LinkCreate(c) ==
    /\ lk[c].pc = "create"
    /\ IF UniqueLink(links[lk[c].model], lk[c].user, lk[c].recipe)
       THEN /\ links' = [links EXCEPT ![lk[c].model] =
                            InsertRow(@, lk[c].user, lk[c].recipe)]
            /\ lk' = [lk EXCEPT ![c].pc = "done", ![c].status = 201]
       ELSE /\ links' = links
            /\ lk' = [lk EXCEPT ![c].pc = "done", ![c].status = 500]
    /\ UNCHANGED <<recipes, recipeIngredients, recipeTags, nextId, follow,
                   apiVars, txVars, up>>

\* instance.delete(): the rows the filter matches now are deleted; 204.
LinkDelete(c) ==
    /\ lk[c].pc = "delete"
    /\ links' = [links EXCEPT ![lk[c].model] = DeleteRows(@, lk[c].user, lk[c].recipe)]
    /\ lk' = [lk EXCEPT ![c].pc = "done", ![c].status = 204]
    /\ UNCHANGED <<recipes, recipeIngredients, recipeTags, nextId, follow,
                   apiVars, txVars, up>>

\* The response is returned.
LinkReturn(c) ==
    /\ lk[c].pc = "done"
    /\ lk' = [lk EXCEPT ![c] = ClientIdle]
    /\ UNCHANGED <<dbVars, apiVars, txVars, up>>

InitLinks ==
    /\ recipes = SeedDB.recipes /\ recipeIngredients = SeedDB.recipeIngredients
    /\ recipeTags = SeedDB.recipeTags /\ nextId = SeedDB.nextId
    /\ links = EmptyDB.links /\ follow = NoRows
    /\ req = NoReq /\ resp = NoResp /\ before = EmptyDB
    /\ wr = WriterIdle /\ rd = ReaderIdle /\ seen = {} /\ writes = 0
    /\ lk = [c \in Clients |-> ClientIdle]
    /\ up = [c \in Clients |-> UpdaterIdle]

NextLinks ==
    \E c \in Clients :
        \/ \E caller \in LinkCallers, pk \in LinkPks, model \in LinkModels,
              method \in {"POST", "DELETE"} :
                LinkBegin(c, caller, pk, model, method)
        \/ LinkCheck(c)
        \/ LinkCreate(c)
        \/ LinkDelete(c)
        \/ LinkReturn(c)

SpecLinks == InitLinks /\ [][NextLinks]_vars

\* ------------------------------------------ shopping cart and shopping list
\* favorite / shopping_cart handled from arrival to response
\* (_manage_user_recipe_list): permission, get_object_or_404, the existence
\* check, then the insert or the delete.
ManageUserRecipeList(caller, pk, model, method) ==
    LET request == [op |-> model, caller |-> caller, id |-> pk,
                    data |-> Some(method), fault |-> 0]
        T == links[model]
        there == Rows(T, caller, pk) > 0
        stored(table) == [DB EXCEPT !.links[model] = table]
    IN  IF caller = Anonymous THEN Handled(request, DB, Response(401, {}, None))
        ELSE IF ~RecipeExists(DB, pk) THEN Handled(request, DB, Response(404, {}, None))
        ELSE IF method = "POST"
             THEN IF there THEN Handled(request, DB, Response(400, {"exists"}, None))
                  ELSE IF UniqueLink(T, caller, pk)
                       THEN Handled(request, stored(InsertRow(T, caller, pk)),
                                    Response(201, {}, Some(pk)))
                       ELSE Handled(request, DB, Response(500, {}, None))
             ELSE IF ~there THEN Handled(request, DB, Response(400, {"not exists"}, None))
                  ELSE Handled(request, stored(DeleteRows(T, caller, pk)),
                               Response(204, {}, None))

\* ShoppingCart.objects.filter(user=user).exists(), negated.
CartIsEmptyNever(D, user) == FALSE
CartIsEmpty(D, user) ==
    ~\E p \in DOMAIN D.links.ShoppingCart : p[1] = user /\ D.links.ShoppingCart[p] > 0
\* The join without its user filter: a row once per cart row of any user.
JoinEveryCart(D, user) ==
    UNION { {[recipe |-> x.recipe, ingredient |-> x.ingredient, amount |-> x.amount,
              cart |-> <<p[1], k>>] : k \in 1..D.links.ShoppingCart[p]}
            : <<x, p>> \in {<<y, q>> \in D.recipeIngredients \X DOMAIN D.links.ShoppingCart :
                              q[2] = y.recipe} }
\* RecipeIngredient.objects.filter(recipe__in_shopping_carts__user=user): the
\* join gives a RecipeIngredient row once per cart row of the user for its recipe.
JoinCart(D, user) ==
    UNION { {[recipe |-> x.recipe, ingredient |-> x.ingredient, amount |-> x.amount,
              cart |-> k] : k \in 1..Rows(D.links.ShoppingCart, user, x.recipe)}
            : x \in D.recipeIngredients }
\* values('ingredient__name'): grouping by the name alone.
GroupKeyNameOnly(x) == <<IngredientRow(x.ingredient).name, "">>
\* values('ingredient__name', 'ingredient__measurement_unit'): the group of a row.
GroupKey(x) ==
    <<IngredientRow(x.ingredient).name, IngredientRow(x.ingredient).measurement_unit>>
\* annotate(total_amount=Sum('amount')): one item per group.
Aggregate(joined) ==
    { [ingredient__name |-> key[1], ingredient__measurement_unit |-> key[2],
       total_amount |-> SumAmounts({x \in joined : GroupKey(x) = key})]
      : key \in {GroupKey(x) : x \in joined} }
\* The names of the Ingredient table in ascending order.
NameRank(name) == CASE name = "flour" -> 1 [] name = "salt" -> 2
\* order_by('ingredient__name'): the items in an order ascending by name; the
\* order of items with one name is the database's choice.
OrderByName(items) ==
    { s \in [1..Cardinality(items) -> items] :
        /\ \A j, k \in DOMAIN s : j # k => s[j] # s[k]
        /\ \A j, k \in DOMAIN s :
              j < k => NameRank(s[j].ingredient__name) <= NameRank(s[k].ingredient__name) }
\* The text: the header, then a line "- name (unit): total" per item.
ShoppingListContent(items) ==
    [header |-> "Foodgram Shopping List:",
     lines |-> [k \in DOMAIN items |->
                  [name |-> items[k].ingredient__name,
                   unit |-> items[k].ingredient__measurement_unit,
                   amount |-> items[k].total_amount]]]

\* GET /recipes/download_shopping_cart/.
DownloadShoppingCart(caller) ==
    LET request == [op |-> "download_shopping_cart", caller |-> caller, id |-> 0,
                    data |-> None, fault |-> 0]
    IN  IF caller = Anonymous THEN Handled(request, DB, Response(401, {}, None))
        ELSE IF CartIsEmpty(DB, caller)
             THEN Handled(request, DB, Response(400, {"Shopping cart is empty."}, None))
        ELSE \E items \in OrderByName(Aggregate(JoinCart(DB, caller))) :
                Handled(request, DB, Response(200, {}, Some(ShoppingListContent(items))))

\* The recipes stored: each with its author, one tag, and an ingredient list
\* that validation accepts (not empty, no ingredient twice, amounts from 1).
CartRecipeIds == 1..CartRecipes
CartAmounts == {a \in [IngredientIds -> 0..MaxAmount] : \E g \in IngredientIds : a[g] > 0}
CartTables ==
    { UNION { {[recipe |-> i, ingredient |-> g, amount |-> f[i][g]]
                 : g \in {h \in IngredientIds : f[i][h] > 0}} : i \in CartRecipeIds }
      : f \in [CartRecipeIds -> CartAmounts] }
CartCallers == {"ann", "bob", Anonymous}
InitCart ==
    /\ recipes = {[id |-> i, author |-> IF i = 1 THEN "ann" ELSE "bob", cooking_time |-> 1]
                    : i \in CartRecipeIds}
    /\ recipeIngredients \in CartTables
    /\ recipeTags = {[recipe |-> i, tag |-> "breakfast"] : i \in CartRecipeIds}
    /\ nextId = CartRecipes + 1
    /\ links = EmptyDB.links /\ follow = NoRows
    /\ req = NoReq /\ resp = NoResp /\ before = EmptyDB
    /\ wr = WriterIdle /\ rd = ReaderIdle /\ seen = {} /\ writes = 0
    /\ lk = [c \in Clients |-> ClientIdle]
    /\ up = [c \in Clients |-> UpdaterIdle]

ShoppingCartRequest ==
    /\ req = NoReq
    /\ \E caller \in CartCallers, pk \in 1..(CartRecipes + 1), method \in {"POST", "DELETE"} :
          ManageUserRecipeList(caller, pk, "ShoppingCart", method)
Download ==
    /\ req = NoReq
    /\ \E caller \in CartCallers : DownloadShoppingCart(caller)

NextCart == ShoppingCartRequest \/ Download \/ ReturnResponse

SpecCart == InitCart /\ [][NextCart]_vars

\* ------------------------------------- favorite and shopping_cart, in turn
FavoriteRequest ==
    /\ req = NoReq
    /\ \E caller \in LinkCallers, pk \in LinkPks, method \in {"POST", "DELETE"} :
          ManageUserRecipeList(caller, pk, "Favorite", method)
CartRequest ==
    /\ req = NoReq
    /\ \E caller \in LinkCallers, pk \in LinkPks, method \in {"POST", "DELETE"} :
          ManageUserRecipeList(caller, pk, "ShoppingCart", method)

NextToggle == FavoriteRequest \/ CartRequest \/ ReturnResponse

SpecToggle == InitLinks /\ [][NextToggle]_vars

\* ------------------------------------------- updates and deletes, by caller
\* instance.delete() of a recipe: the row, and by on_delete=CASCADE its
\* RecipeIngredient, tag, Favorite and ShoppingCart rows.
DeleteRecipe(D, id) ==
    [D EXCEPT !.recipes = {r \in @ : r.id # id},
              !.recipeIngredients = {x \in @ : x.recipe # id},
              !.recipeTags = {x \in @ : x.recipe # id},
              !.links = [m \in DOMAIN @ |->
                           [p \in {q \in DOMAIN @[m] : q[2] # id} |-> @[m][p]]]]

\* DELETE /recipes/{id}/: get_object (404, then the object permission), then
\* perform_destroy.
RecipeDestroy(caller, id) ==
    LET request == [op |-> "destroy", caller |-> caller, id |-> id,
                    data |-> None, fault |-> 0]
    IN  IF ~RecipeExists(DB, id) THEN Handled(request, DB, Response(404, {}, None))
        ELSE IF ~HasObjectPermission(caller, RecipeRow(DB, id))
             THEN Handled(request, DB, Response(Denied(caller), {}, None))
        ELSE Handled(request, DeleteRecipe(DB, id), Response(204, {}, None))

\* Two recipes of two authors, and a favorite of a third user.
OwnerDB ==
    [EmptyDB EXCEPT
        !.recipes = {[id |-> 1, author |-> "ann", cooking_time |-> 1],
                     [id |-> 2, author |-> "bob", cooking_time |-> 1]},
        !.recipeIngredients = {[recipe |-> 1, ingredient |-> 1, amount |-> 1],
                               [recipe |-> 2, ingredient |-> 2, amount |-> 2]},
        !.recipeTags = {[recipe |-> 1, tag |-> "breakfast"],
                        [recipe |-> 2, tag |-> "lunch"]},
        !.nextId = 3,
        !.links = [Favorite |-> InsertRow(NoRows, "cat", 1), ShoppingCart |-> NoRows]]
\* Who sends the requests: the authors, a staff user who wrote neither
\* recipe, and nobody logged in.
OwnerCallers == {"ann", "bob", "cat", Anonymous}
\* Primary keys asked for: the two recipes, and one that is not stored.
OwnerPks == {1, 2, 3}
\* The payloads with at most one ingredient and one tag.
OwnerPayloads ==
    {d \in Payloads :
        /\ (~IsNone(d.ingredients) => Len(d.ingredients[1]) <= 1)
        /\ (~IsNone(d.tags) => Len(d.tags[1]) <= 1)}
InitOwner ==
    /\ recipes = OwnerDB.recipes /\ recipeIngredients = OwnerDB.recipeIngredients
    /\ recipeTags = OwnerDB.recipeTags /\ nextId = OwnerDB.nextId
    /\ links = OwnerDB.links /\ follow = NoRows
    /\ req = NoReq /\ resp = NoResp /\ before = EmptyDB
    /\ wr = WriterIdle /\ rd = ReaderIdle /\ seen = {} /\ writes = 0
    /\ lk = [c \in Clients |-> ClientIdle]
    /\ up = [c \in Clients |-> UpdaterIdle]

OwnerUpdate ==
    /\ req = NoReq
    /\ \E caller \in OwnerCallers, id \in OwnerPks, data \in OwnerPayloads :
          \E fault \in 0..Len(UpdateSteps(data)) :
              RecipeUpdate(caller, id, data, TRUE, fault)
OwnerDestroy ==
    /\ req = NoReq
    /\ \E caller \in OwnerCallers, id \in OwnerPks : RecipeDestroy(caller, id)

NextOwner == OwnerUpdate \/ OwnerDestroy \/ ReturnResponse

SpecOwner == InitOwner /\ [][NextOwner]_vars

\* ------------------------------------------------------------ subscriptions
\* Ids a subscribe request may name: the users, and an id no user has.
UserIds == Users \cup {"nobody"}
\* user == following_user, without the comparison.
IsSelfNever(user, following) == FALSE
\* user == following_user
IsSelf(user, following) == user = following
\* Follow.Meta.constraints: unique_follow and prevent_self_follow.
FollowConstraints(T, user, following) ==
    /\ Rows(T, user, following) = 0
    /\ user # following

\* POST or DELETE /users/{id}/subscribe/.
Subscribe(caller, id, method) ==
    LET request == [op |-> "subscribe", caller |-> caller, id |-> 0,
                    data |-> Some([method |-> method, id |-> id]), fault |-> 0]
        there == Rows(follow, caller, id) > 0
        stored(table) == [DB EXCEPT !.follow = table]
    IN  IF caller = Anonymous THEN Handled(request, DB, Response(401, {}, None))
        ELSE IF id \notin Users THEN Handled(request, DB, Response(404, {}, None))
        ELSE IF IsSelf(caller, id)
             THEN Handled(request, DB,
                          Response(400, {"You cannot subscribe to yourself."}, None))
        ELSE IF method = "POST"
             THEN IF there
                  THEN Handled(request, DB,
                               Response(400, {"You are already subscribed to this user."},
                                        None))
                  ELSE IF FollowConstraints(follow, caller, id)
                       THEN Handled(request, stored(InsertRow(follow, caller, id)),
                                    Response(201, {}, Some(id)))
                       ELSE Handled(request, DB, Response(500, {}, None))
             ELSE IF ~there
                  THEN Handled(request, DB,
                               Response(400, {"You are not subscribed to this user."}, None))
                  ELSE Handled(request, stored(DeleteRows(follow, caller, id)),
                               Response(204, {}, None))

SubscribeRequest ==
    /\ req = NoReq
    /\ \E caller \in Users \cup {Anonymous}, id \in UserIds, method \in {"POST", "DELETE"} :
          Subscribe(caller, id, method)

NextFollow == SubscribeRequest \/ ReturnResponse

SpecFollow == Init /\ [][NextFollow]_vars

\* ------------------------------------------------ the flags of a recipe read
\* _get_user_recipe_status that looks at the rows of every user.
AnyUserRecipeStatus(D, caller, id, model) ==
    \E u \in Users : Rows(D.links[model], u, id) > 0
\* RecipeReadSerializer._get_user_recipe_status: False for an anonymous
\* request, else whether the caller has a row of the model for the recipe.
GetUserRecipeStatus(D, caller, id, model) ==
    IF caller = Anonymous THEN FALSE
    ELSE Rows(D.links[model], caller, id) > 0
\* CustomUserSerializer.get_is_subscribed: False for an anonymous request,
\* else whether the caller follows the user shown.
GetIsSubscribed(D, caller, obj) ==
    IF caller = Anonymous THEN FALSE
    ELSE Rows(D.follow, caller, obj) > 0
\* RecipeReadSerializer with the request in its context: the projection, the
\* two flags of the recipe and the flag of its author.
RecipeRead(D, caller, id) ==
    [recipe |-> ReadProjection(D, id),
     is_favorited |-> GetUserRecipeStatus(D, caller, id, "Favorite"),
     is_in_shopping_cart |-> GetUserRecipeStatus(D, caller, id, "ShoppingCart"),
     is_subscribed |-> GetIsSubscribed(D, caller, RecipeRow(D, id).author)]

\* GET /recipes/{id}/: get_object (404; reading is permitted to anyone).
RecipeRetrieve(caller, id) ==
    LET request == [op |-> "retrieve", caller |-> caller, id |-> id,
                    data |-> None, fault |-> 0]
    IN  IF ~RecipeExists(DB, id) THEN Handled(request, DB, Response(404, {}, None))
        ELSE Handled(request, DB, Response(200, {}, Some(RecipeRead(DB, caller, id))))

Retrieve ==
    /\ req = NoReq
    /\ \E caller \in LinkCallers, id \in LinkPks : RecipeRetrieve(caller, id)

NextFlags ==
    FavoriteRequest \/ CartRequest \/ SubscribeRequest \/ Retrieve \/ ReturnResponse

SpecFlags == InitLinks /\ [][NextFlags]_vars

\* ------------------------------------------------------- the recipe list
\* A queryset of recipes is the number of times each recipe is in it.
\* Recipe.objects.all()
AllRecipes(D) == [id \in {r.id : r \in D.recipes} |-> 1]
Restrict(qs, keep) == [id \in {i \in DOMAIN qs : keep[i] > 0} |-> qs[id] * keep[id]]
\* A filter that does not end with distinct().
Undistinct(qs) == qs
\* qs.distinct()
Distinct(qs) == [id \in DOMAIN qs |-> 1]
\* RecipeFilter.tags, a ModelMultipleChoiceFilter on tags__slug: nothing
\* supplied is no filter; else the join with the tag rows whose slug is one of
\* those supplied (a recipe once per such row), made distinct.
FilterTags(D, qs, slugs) ==
    IF slugs = {} THEN qs
    ELSE Distinct(Restrict(qs,
            [id \in DOMAIN qs |->
                Cardinality({x \in D.recipeTags : x.recipe = id /\ x.tag \in slugs})]))
\* _filter_user_recipe_list that does not test whether the caller logged in.
FilterUserRecipeListAnyCaller(D, qs, caller, value, model) ==
    IF IsNone(value) THEN qs
    ELSE IF value[1]
         THEN Restrict(qs, [id \in DOMAIN qs |->
                              IF Rows(D.links[model], caller, id) > 0 THEN 1 ELSE 0])
         ELSE qs
\* RecipeFilter._filter_user_recipe_list, called when the parameter is given:
\* pk__in the caller's rows when the value is true and the caller logged in.
FilterUserRecipeList(D, qs, caller, value, model) ==
    IF IsNone(value) THEN qs
    ELSE IF value[1] /\ caller # Anonymous
         THEN Restrict(qs, [id \in DOMAIN qs |->
                              IF Rows(D.links[model], caller, id) > 0 THEN 1 ELSE 0])
         ELSE qs
\* The query parameters of a list request.
ListParams ==
    [tags : SUBSET Tags, is_favorited : Option(BOOLEAN),
     is_in_shopping_cart : Option(BOOLEAN)]
\* RecipeFilter: the declared filters, one after the other.
RecipeFilter(D, caller, params) ==
    FilterUserRecipeList(D,
        FilterUserRecipeList(D, FilterTags(D, AllRecipes(D), params.tags),
                             caller, params.is_favorited, "Favorite"),
        caller, params.is_in_shopping_cart, "ShoppingCart")

\* GET /recipes/ with query parameters.
RecipeList(caller, params) ==
    Handled([op |-> "list", caller |-> caller, id |-> 0, data |-> Some(params),
             fault |-> 0],
            DB, Response(200, {}, Some(RecipeFilter(DB, caller, params))))

\* Two recipes, each with a tag set that validation accepts.
ListTagTables ==
    { UNION { {[recipe |-> i, tag |-> t] : t \in f[i]} : i \in DOMAIN f }
      : f \in [{r.id : r \in OwnerDB.recipes} -> (SUBSET Tags) \ {{}}] }
InitList ==
    /\ recipes = OwnerDB.recipes /\ recipeIngredients = OwnerDB.recipeIngredients
    /\ recipeTags \in ListTagTables
    /\ nextId = OwnerDB.nextId
    /\ links = EmptyDB.links /\ follow = NoRows
    /\ req = NoReq /\ resp = NoResp /\ before = EmptyDB
    /\ wr = WriterIdle /\ rd = ReaderIdle /\ seen = {} /\ writes = 0
    /\ lk = [c \in Clients |-> ClientIdle]
    /\ up = [c \in Clients |-> UpdaterIdle]

List ==
    /\ req = NoReq
    /\ \E caller \in LinkCallers, params \in ListParams : RecipeList(caller, params)

NextList == FavoriteRequest \/ CartRequest \/ List \/ ReturnResponse

SpecList == InitList /\ [][NextList]_vars

\* ---------------------------------------- payloads that carry an author
\* The payloads with at most one ingredient and one tag, each with or
\* without an author field naming a user.
AuthorPayloads ==
    {[ingredients |-> d.ingredients, tags |-> d.tags, cooking_time |-> d.cooking_time,
      author |-> a] : d \in OwnerPayloads, a \in Option({"ann", "bob"})}
AuthorCreate ==
    /\ req = NoReq
    /\ \E caller \in WriteCallers, data \in AuthorPayloads, fault \in 0..Len(CreateSteps) :
          RecipeCreate(caller, data, fault)
AuthorUpdate ==
    /\ req = NoReq
    /\ \E caller \in WriteCallers, id \in 1..(MaxRecipes + 1), data \in AuthorPayloads :
          \E fault \in 0..Len(UpdateSteps(data)) :
              RecipeUpdate(caller, id, data, TRUE, fault)

NextAuthor == AuthorCreate \/ AuthorUpdate \/ ReturnResponse

SpecAuthor == Init /\ [][NextAuthor]_vars

\* ------------------------------- two updates of one recipe, step by step
\* The ingredient lists validation accepts.
RaceLists ==
    {L \in SeqsUpTo(Items, MaxLen) :
        ValidateIngredients(L) /\ \A k \in DOMAIN L : ValidAmount(L[k])}
\* A transaction in progress: between its first statement and its end.
InTransaction(c) == up[c].pc \in {"delete", "deleting", "bulk_create", "commit"}
\* A save that takes no lock on the Recipe row.
RowNeverLocked(c, id) == FALSE
\* super().update ends with instance.save(), an UPDATE of the Recipe row: the
\* row stays locked for other transactions until this one ends.
RowLocked(c, id) == InTransaction(c) /\ up[c].id = id
\* The tables as a statement of the client's transaction sees them: what is
\* committed, without the rows the transaction has deleted.
Visible(c) == [DB EXCEPT !.recipeIngredients = @ \ up[c].del]

\* PATCH /recipes/{id}/ with an ingredient list, by the author: get_object,
\* validation, and the atomic block is entered.
UpBegin(c, id, L) ==
    /\ up[c].pc = "idle"
    /\ RecipeExists(DB, id)
    /\ LET busy == {d \in Clients \ {c} : up[d].pc \notin {"idle", "done"}}
       IN  up' = [d \in Clients |->
                    IF d = c THEN [UpdaterIdle EXCEPT !.pc = "save", !.id = id,
                                                      !.list = L, !.overlap = busy # {}]
                    ELSE IF d \in busy THEN [up[d] EXCEPT !.overlap = TRUE]
                    ELSE up[d]]
    /\ UNCHANGED <<dbVars, apiVars, txVars, lk>>
\* super().update(instance, validated_data): waits while another transaction
\* holds the row.
UpSave(c) ==
    /\ up[c].pc = "save"
    /\ \A d \in Clients \ {c} : ~RowLocked(d, up[c].id)
    /\ up' = [up EXCEPT ![c].pc = "delete"]
    /\ UNCHANGED <<dbVars, apiVars, txVars, lk>>
\* RecipeIngredient.objects.filter(recipe=instance).delete() starts: the rows
\* it will delete are the rows committed now.
UpDeleteStart(c) ==
    /\ up[c].pc = "delete"
    /\ up' = [up EXCEPT ![c].pc = "deleting",
                        ![c].target = IngredientsOf(Visible(c), up[c].id)]
    /\ UNCHANGED <<dbVars, apiVars, txVars, lk>>
\* ... and ends, once no other transaction holds one of those rows: the rows
\* still stored are deleted.
UpDeleteEnd(c) ==
    /\ up[c].pc = "deleting"
    /\ \A d \in Clients \ {c} : up[d].del \cap up[c].target = {}
    /\ up' = [up EXCEPT ![c].pc = "bulk_create",
                        ![c].del = up[c].target \cap recipeIngredients,
                        ![c].target = {}]
    /\ UNCHANGED <<dbVars, apiVars, txVars, lk>>
\* bulk_create of the new rows: waits for a transaction that has inserted a
\* row with one of its keys; refused (the transaction rolled back, a server
\* error) when a stored row has one of its keys.
UpBulkCreate(c) ==
    /\ up[c].pc = "bulk_create"
    /\ \A d \in Clients \ {c} :
          \A x \in up[d].ins, y \in NewRows(up[c].id, up[c].list) :
              ~(x.recipe = y.recipe /\ x.ingredient = y.ingredient)
    /\ IF UniqueRecipeIngredient(Visible(c), up[c].id, up[c].list)
       THEN up' = [up EXCEPT ![c].pc = "commit",
                             ![c].ins = NewRows(up[c].id, up[c].list)]
       ELSE up' = [up EXCEPT ![c].pc = "done", ![c].status = 500,
                             ![c].del = {}, ![c].ins = {}]
    /\ UNCHANGED <<dbVars, apiVars, txVars, lk>>
\* The block is left and the transaction commits; 200.
UpCommit(c) ==
    /\ up[c].pc = "commit"
    /\ recipeIngredients' = (recipeIngredients \ up[c].del) \cup up[c].ins
    /\ up' = [up EXCEPT ![c].pc = "done", ![c].status = 200,
                        ![c].del = {}, ![c].ins = {}]
    /\ UNCHANGED <<recipes, recipeTags, nextId, links, follow, apiVars, txVars, lk>>
\* The response is returned.
UpReturn(c) ==
    /\ up[c].pc = "done"
    /\ up' = [d \in Clients |->
                IF d = c THEN UpdaterIdle
                ELSE IF up[d].pc = "done" THEN [up[d] EXCEPT !.overlap = FALSE]
                ELSE up[d]]
    /\ UNCHANGED <<dbVars, apiVars, txVars, lk>>

NextRace ==
    \E c \in Clients :
        \/ \E L \in RaceLists : UpBegin(c, 1, L)
        \/ UpSave(c)
        \/ UpDeleteStart(c)
        \/ UpDeleteEnd(c)
        \/ UpBulkCreate(c)
        \/ UpCommit(c)
        \/ UpReturn(c)

SpecRace == InitLinks /\ [][NextRace]_vars

\* ------------------------------ shopping lists beside other users' rows
\* The ingredient tables in which each recipe has one row.
OneRowTables ==
    {T \in CartTables : \A i \in CartRecipeIds : Cardinality(IngredientsOf([recipeIngredients |-> T], i)) = 1}
InitOthers ==
    /\ recipes = {[id |-> i, author |-> IF i = 1 THEN "ann" ELSE "bob", cooking_time |-> 1]
                    : i \in CartRecipeIds}
    /\ recipeIngredients \in OneRowTables
    /\ recipeTags = {[recipe |-> i, tag |-> "breakfast"] : i \in CartRecipeIds}
    /\ nextId = CartRecipes + 1
    /\ links = EmptyDB.links /\ follow = NoRows
    /\ req = NoReq /\ resp = NoResp /\ before = EmptyDB
    /\ wr = WriterIdle /\ rd = ReaderIdle /\ seen = {} /\ writes = 0
    /\ lk = [c \in Clients |-> ClientIdle]
    /\ up = [c \in Clients |-> UpdaterIdle]

NextOthers == FavoriteRequest \/ CartRequest \/ Download \/ ReturnResponse

SpecOthers == InitOthers /\ [][NextOthers]_vars

\* -------------------------------------------------------------- properties
\* The three tables of a recipe write, without the key counter.
Tables(D) == <<D.recipes, D.recipeIngredients, D.recipeTags>>
IsWrite(r) == r.op \in {"create", "update", "partial_update"}
\* The {ingredient, amount} pairs of a submitted list and of stored rows.
PairsOfList(L) == {[ingredient |-> L[k].id, amount |-> L[k].amount] : k \in DOMAIN L}
PairsOfRows(rows) == {[ingredient |-> x.ingredient, amount |-> x.amount] : x \in rows}
PairsOfEntries(entries) == {[ingredient |-> e.id, amount |-> e.amount] : e \in entries}

\* C1: a recipe create or update that fails in any of its statements leaves
\* the Recipe rows, the RecipeIngredient rows and the tag rows exactly as the
\* request found them, and after a failed create the new Recipe row does not
\* exist.
C1_AllOrNothing ==
    (IsWrite(req) /\ resp.status = 500) =>
        /\ Tables(DB) = Tables(before)
        /\ req.op = "create" => ~RecipeExists(DB, before.nextId)
\* An update whose bulk insert fails after its delete of existing rows ran, and
\* a create that fails at its last statement.
C1_Witness ==
    /\ resp.status = 500
    /\ \/ /\ req.op = "partial_update"
          /\ ~IsNone(req.data[1].ingredients)
          /\ req.fault = 3
          /\ IngredientsOf(before, req.id) # {}
       \/ req.op = "create" /\ req.fault = 4

\* C2: a read of a recipe that overlaps a create or update of it returns the
\* recipe as some commit left it: its tags and its ingredient entries are
\* together those of one committed state of the recipe, the one the read found
\* or one committed while it ran.
C2_ReadSeesOneCommittedState ==
    rd.pc = "done" => [tags |-> rd.tags, ingredients |-> rd.ingredients] \in seen
\* Each query of the read by itself returns committed rows: rows deleted and
\* not yet replaced inside the transaction are never returned.
C2_EachQueryCommitted ==
    /\ rd.pc \in {"ingredients", "done"} => \E v \in seen : v.tags = rd.tags
    /\ rd.pc = "done" => \E v \in seen : v.ingredients = rd.ingredients

\* The add requests that have reached their answer in this step.
Answered(c) == lk[c].pc # "done" /\ lk'[c].pc = "done"
\* C3: whatever the interleaving of favorite and shopping_cart requests, each
\* table holds at most one row per (user, recipe), and at the moment an add
\* request for a recipe that exists is answered (created, refused by the
\* check or refused by the insert) exactly one row for its pair is stored.
C3_OneLinkPerPair ==
    [][/\ \A m \in LinkModels : \A p \in DOMAIN links'[m] : links'[m][p] <= 1
       /\ \A c \in Clients :
            (Answered(c) /\ lk'[c].method = "POST" /\ lk'[c].status \in {201, 400, 500})
                => Rows(links'[lk'[c].model], lk'[c].user, lk'[c].recipe) = 1]_vars
\* Two add requests for one pair that both passed the existence check: one
\* stored the row, the other's insert was refused.
C3_Witness ==
    \E c, d \in Clients :
        /\ lk[c].pc = "done" /\ lk[c].method = "POST" /\ lk[c].status = 201
        /\ lk[d].pc = "done" /\ lk[d].method = "POST" /\ lk[d].status = 500
        /\ <<lk[c].model, lk[c].user, lk[c].recipe>>
              = <<lk[d].model, lk[d].user, lk[d].recipe>>
        /\ Rows(links[lk[c].model], lk[c].user, lk[c].recipe) = 1

\* C4: an add request whose insert the uniqueness constraint refuses is
\* answered like a sequential duplicate add, 400, and never with a server
\* error: every answered add request has status 201, 400, 401 or 404.
C4_LoserAnswersAlreadyExists ==
    \A c \in Clients :
        (lk[c].pc = "done" /\ lk[c].method = "POST")
            => lk[c].status \in {201, 400, 401, 404}

\* The recipes in a user's cart, and the RecipeIngredient rows of those
\* recipes whose ingredient has a given name and unit.
CartOf(D, user) == {p[2] : p \in {q \in DOMAIN D.links.ShoppingCart : q[1] = user}}
NameUnit(x) ==
    <<IngredientRow(x.ingredient).name, IngredientRow(x.ingredient).measurement_unit>>
CartRowsOf(D, user, pair) ==
    {x \in D.recipeIngredients : x.recipe \in CartOf(D, user) /\ NameUnit(x) = pair}
IsDownload(r) == r.op = "download_shopping_cart" /\ r.caller # Anonymous
\* C5: a download by a caller whose cart is not empty returns a list with
\* exactly one line per (name, unit) pair among the RecipeIngredient rows of
\* the recipes in the caller's cart, and the amount of each line is the sum of
\* the amounts of the rows with that pair.
C5_OneLinePerPairWithSum ==
    (IsDownload(req) /\ CartOf(before, req.caller) # {}) =>
        /\ resp.status = 200
        /\ resp.body # None
        /\ LET lines == resp.body[1].lines
               pairs == {NameUnit(x) : x \in {y \in before.recipeIngredients :
                                                y.recipe \in CartOf(before, req.caller)}}
           IN  /\ Len(lines) = Cardinality(pairs)
               /\ {<<l.name, l.unit>> : l \in Range(lines)} = pairs
               /\ \A l \in Range(lines) :
                     l.amount = SumAmounts(CartRowsOf(before, req.caller, <<l.name, l.unit>>))
\* A list downloaded with two recipes in the cart that use one ingredient: the
\* two rows are one line, with the sum of their amounts.
C5_Witness ==
    /\ IsDownload(req) /\ resp.status = 200
    /\ \E l \in Range(resp.body[1].lines) :
          /\ Cardinality(CartRowsOf(before, req.caller, <<l.name, l.unit>>)) = 2
          /\ l.amount = SumAmounts(CartRowsOf(before, req.caller, <<l.name, l.unit>>))
          /\ l.amount > 1

\* C6: a download by a user with no ShoppingCart row is answered with the
\* "cart is empty" error and no document; a document is returned only when
\* the caller's cart holds a recipe; and no download changes a stored table.
C6_EmptyCartRefused ==
    IsDownload(req) =>
        /\ CartOf(before, req.caller) = {} =>
              /\ resp.status = 400
              /\ resp.errors = {"Shopping cart is empty."}
              /\ resp.body = None
        /\ resp.body # None => CartOf(before, req.caller) # {}
        /\ DB = before
\* A download refused for an empty cart while another user's cart is not empty.
C6_Witness ==
    /\ IsDownload(req) /\ resp.status = 400 /\ resp.body = None
    /\ CartOf(before, req.caller) = {}
    /\ \E u \in Users : CartOf(before, u) # {}
    /\ DB = before

\* C7: after a successful update that supplies an ingredient list L the
\* recipe's RecipeIngredient rows are exactly the pairs of L, one row per item,
\* and the recipe read back (the response, and the read projection of what is
\* stored) lists exactly those pairs.
C7_UpdateReplacesIngredients ==
    (req.op = "partial_update" /\ resp.status = 200
        /\ ~IsNone(req.data[1].ingredients)) =>
        LET L == req.data[1].ingredients[1]
        IN  /\ PairsOfRows(IngredientsOf(DB, req.id)) = PairsOfList(L)
            /\ Cardinality(IngredientsOf(DB, req.id)) = Len(L)
            /\ PairsOfEntries(ReadProjection(DB, req.id).ingredients) = PairsOfList(L)
            /\ PairsOfEntries(resp.body[1].ingredients) = PairsOfList(L)
            /\ Cardinality(resp.body[1].ingredients) = Len(L)
\* A successful update to a strict subset of the rows stored before.
C7_Witness ==
    /\ req.op = "partial_update" /\ resp.status = 200
    /\ ~IsNone(req.data[1].ingredients)
    /\ PairsOfList(req.data[1].ingredients[1])
          \subseteq PairsOfRows(IngredientsOf(before, req.id))
    /\ PairsOfList(req.data[1].ingredients[1])
          # PairsOfRows(IngredientsOf(before, req.id))

\* C8: the response to a successful create lists exactly one ingredient entry
\* per submitted item, with the item's ingredient (its id, name and unit) and
\* amount, and exactly the submitted tags.
C8_CreateResponseMatchesPayload ==
    (req.op = "create" /\ resp.status = 201) =>
        LET L == req.data[1].ingredients[1]
            body == resp.body[1]
        IN  /\ PairsOfEntries(body.ingredients) = PairsOfList(L)
            /\ Cardinality(body.ingredients) = Len(L)
            /\ \A e \in body.ingredients :
                  [id |-> e.id, name |-> e.name,
                   measurement_unit |-> e.measurement_unit] \in Ingredient
            /\ body.tags = Range(req.data[1].tags[1])
\* A create answered 201 whose payload has two ingredients and two tags.
C8_Witness ==
    /\ req.op = "create" /\ resp.status = 201
    /\ Len(req.data[1].ingredients[1]) = 2
    /\ Len(req.data[1].tags[1]) = 2

\* The flaws of a payload, by field.
Repeats(s) == \E j, k \in DOMAIN s : j # k /\ s[j] = s[k]
Flaws(data) ==
    (IF ~IsNone(data.ingredients)
        /\ \/ data.ingredients[1] = <<>>
           \/ Repeats([k \in DOMAIN data.ingredients[1] |-> data.ingredients[1][k].id])
           \/ \E k \in DOMAIN data.ingredients[1] : data.ingredients[1][k].amount < 1
     THEN {"ingredients"} ELSE {})
    \cup (IF ~IsNone(data.tags) /\ (data.tags[1] = <<>> \/ Repeats(data.tags[1]))
          THEN {"tags"} ELSE {})
    \cup (IF ~IsNone(data.cooking_time) /\ data.cooking_time[1] < 1
          THEN {"cooking_time"} ELSE {})
\* The request gets as far as validation: a create, or an update of a recipe
\* that exists by its author.
ReachesValidation(r) ==
    \/ r.op = "create"
    \/ \E x \in before.recipes : x.id = r.id /\ x.author = r.caller

\* C9: a create or update whose payload has an empty ingredient list, a
\* repeated ingredient, an amount below 1, an empty tag list, a repeated tag or
\* a cooking time below 1 changes no stored state and, when the request gets
\* as far as validation, is answered 400 with an error on each such field; in
\* every state a recipe has at most one RecipeIngredient row per ingredient
\* and every stored amount is at least 1.
C9_InvalidPayloadRejected ==
    /\ (IsWrite(req) /\ Flaws(req.data[1]) # {}) =>
          /\ DB = before
          /\ ReachesValidation(req) =>
                resp.status = 400 /\ Flaws(req.data[1]) \subseteq resp.errors
    /\ \A x, y \in recipeIngredients :
          (x.recipe = y.recipe /\ x.ingredient = y.ingredient) => x = y
    /\ \A x \in recipeIngredients : x.amount >= 1
\* An update by the author, refused for naming one ingredient twice with
\* amounts that are valid.
C9_Witness ==
    /\ req.op = "partial_update" /\ resp.status = 400
    /\ ~IsNone(req.data[1].ingredients)
    /\ Len(req.data[1].ingredients[1]) = 2
    /\ req.data[1].ingredients[1][1].id = req.data[1].ingredients[1][2].id
    /\ \A k \in 1..2 : req.data[1].ingredients[1][k].amount >= 1
    /\ IngredientsOf(DB, req.id) # {}


\* C10: a subscribe request, POST or DELETE, whose target is the caller is
\* answered with the 400 error whatever the Follow table holds, and stores
\* nothing; and no Follow row has its user equal to its following.
C10_SelfSubscribeRefused ==
    /\ (req.op = "subscribe" /\ req.caller # Anonymous /\ req.data[1].id = req.caller) =>
          /\ resp.status = 400
          /\ resp.errors = {"You cannot subscribe to yourself."}
          /\ DB = before
    /\ \A p \in DOMAIN follow : follow[p] > 0 => p[1] # p[2]
\* Self-subscription refused for a caller who follows and is followed.
C10_Witness ==
    /\ req.op = "subscribe" /\ req.data[1].id = req.caller /\ resp.status = 400
    /\ \E u \in Users : Rows(follow, req.caller, u) > 0
    /\ \E u \in Users : Rows(follow, u, req.caller) > 0
    /\ DB = before


\* A favorite or shopping_cart request of a logged-in caller.
IsLinkRequest(r) == r.op \in LinkModels /\ r.caller # Anonymous
\* C11: for Favorite and ShoppingCart alike, with the link of (caller, recipe)
\* as the request finds it: an unknown recipe id is answered 404 whatever the
\* links are; POST answers 201 and stores the link iff there was none, else
\* 400 with the "exists" message; DELETE answers 204 and removes the link iff
\* there was one, else 400 with the "not exists" message; a refused request
\* stores nothing, and a request carried out changes only its own pair.
C11_LinkToggle ==
    IsLinkRequest(req) =>
        LET T0 == before.links[req.op]
            T1 == links[req.op]
            there == Rows(T0, req.caller, req.id) > 0
            others == \A p \in (DOMAIN T0 \cup DOMAIN T1) \ {<<req.caller, req.id>>} :
                         Rows(T0, p[1], p[2]) = Rows(T1, p[1], p[2])
            rest == [DB EXCEPT !.links[req.op] = T0] = before
        IN  IF ~RecipeExists(before, req.id)
            THEN resp.status = 404 /\ DB = before
            ELSE IF req.data = Some("POST")
            THEN IF there
                 THEN resp.status = 400 /\ resp.errors = {"exists"} /\ DB = before
                 ELSE /\ resp.status = 201
                      /\ Rows(T1, req.caller, req.id) = 1 /\ others /\ rest
            ELSE IF there
                 THEN /\ resp.status = 204
                      /\ Rows(T1, req.caller, req.id) = 0 /\ others /\ rest
                 ELSE resp.status = 400 /\ resp.errors = {"not exists"} /\ DB = before
\* A favorite removed while the same pair stays in the shopping cart.
C11_Witness ==
    /\ IsLinkRequest(req) /\ req.op = "Favorite" /\ req.data = Some("DELETE")
    /\ resp.status = 204
    /\ Rows(before.links.Favorite, req.caller, req.id) = 1
    /\ Rows(links.Favorite, req.caller, req.id) = 0
    /\ Rows(links.ShoppingCart, req.caller, req.id) = 1

\* A PATCH or DELETE of a recipe that is stored.
IsObjectWrite(r) == r.op \in {"partial_update", "destroy"} /\ RecipeExists(before, r.id)
\* C12: a PATCH or DELETE of a stored recipe by anyone but its author (another
\* user, a staff user, nobody logged in) is answered 401 or 403 and stores
\* nothing; and whenever such a request changes a table, its caller is the
\* author.
C12_OnlyAuthorWrites ==
    IsObjectWrite(req) =>
        /\ req.caller # RecipeRow(before, req.id).author =>
              /\ resp.status \in {401, 403}
              /\ DB = before
        /\ DB # before => req.caller = RecipeRow(before, req.id).author
\* A staff user who is not the author is refused the deletion of a recipe.
C12_Witness ==
    /\ IsObjectWrite(req) /\ req.op = "destroy" /\ req.caller \in Staff
    /\ req.caller # RecipeRow(before, req.id).author
    /\ resp.status = 403
    /\ RecipeExists(DB, req.id) /\ DB = before

\* C13: a create request from nobody logged in is answered 401 before the
\* serializer's create runs, and stores no Recipe row.
C13_AnonymousCreateRefused ==
    (req.op = "create" /\ req.caller = Anonymous) =>
        /\ resp.status = 401
        /\ DB = before

\* C14: in a recipe read, is_favorited, is_in_shopping_cart and the author's
\* is_subscribed are all false for an anonymous request whatever rows are
\* stored; for a logged-in caller each is true iff the caller's Favorite row,
\* ShoppingCart row for the recipe, or Follow row for its author, is stored.
C14_FlagsFollowCaller ==
    (req.op = "retrieve" /\ resp.status = 200) =>
        LET body == resp.body[1]
            author == RecipeRow(before, req.id).author
        IN  IF req.caller = Anonymous
            THEN ~body.is_favorited /\ ~body.is_in_shopping_cart /\ ~body.is_subscribed
            ELSE /\ body.is_favorited
                       <=> Rows(before.links.Favorite, req.caller, req.id) > 0
                 /\ body.is_in_shopping_cart
                       <=> Rows(before.links.ShoppingCart, req.caller, req.id) > 0
                 /\ body.is_subscribed <=> Rows(before.follow, req.caller, author) > 0
\* An anonymous read of a recipe that is a favorite, is in a cart and whose
\* author is followed: the three flags are false.
C14_Witness ==
    /\ req.op = "retrieve" /\ resp.status = 200 /\ req.caller = Anonymous
    /\ \E u \in Users : Rows(links.Favorite, u, req.id) > 0
    /\ \E u \in Users : Rows(links.ShoppingCart, u, req.id) > 0
    /\ \E u \in Users : Rows(follow, u, RecipeRow(DB, req.id).author) > 0
    /\ ~resp.body[1].is_favorited /\ ~resp.body[1].is_in_shopping_cart
    /\ ~resp.body[1].is_subscribed

\* The recipes of a list response, and whether a user-list parameter
\* restricts the list of the request: given as true by a logged-in caller.
ListIds(r) == DOMAIN r.body[1]
Restricts(r, value) == value = Some(TRUE) /\ r.caller # Anonymous
HasLink(D, model, user, id) == Rows(D.links[model], user, id) > 0
Tagged(D, id, slugs) == slugs = {} \/ TagsOf(D, id) \cap slugs # {}
\* C15: with I the recipes that pass the tags parameter, the list is a subset
\* of I; is_favorited given as true by a logged-in caller keeps exactly the
\* recipes with a Favorite row of the caller, is_in_shopping_cart likewise
\* with ShoppingCart; a parameter that is false or missing, or sent by nobody
\* logged in, keeps everything.
C15_UserListFiltersNarrow ==
    req.op = "list" =>
        LET p == req.data[1]
            I == {r.id : r \in {x \in before.recipes : Tagged(before, x.id, p.tags)}}
        IN  ListIds(resp) =
              {id \in I :
                 /\ Restricts(req, p.is_favorited) =>
                        HasLink(before, "Favorite", req.caller, id)
                 /\ Restricts(req, p.is_in_shopping_cart) =>
                        HasLink(before, "ShoppingCart", req.caller, id)}
\* A list narrowed by is_favorited to one of two recipes, while the same
\* parameter from nobody logged in would keep both.
C15_Witness ==
    /\ req.op = "list" /\ req.caller # Anonymous
    /\ req.data[1].is_favorited = Some(TRUE) /\ req.data[1].tags = {}
    /\ req.data[1].is_in_shopping_cart = Some(FALSE)
    /\ Cardinality(ListIds(resp)) = 1
    /\ Cardinality(before.recipes) = 2
    /\ \A id \in ListIds(resp) : HasLink(before, "Favorite", req.caller, id)
    /\ \E id \in ListIds(resp) : ~HasLink(before, "ShoppingCart", req.caller, id)

\* C16: a list with tag slugs supplied and no other parameter holds exactly
\* the recipes with at least one of the supplied tags, each of them once.
C16_TagsFilterIsUnion ==
    (/\ req.op = "list" /\ req.data[1].tags # {}
     /\ IsNone(req.data[1].is_favorited) /\ IsNone(req.data[1].is_in_shopping_cart)) =>
        /\ ListIds(resp) =
              {r.id : r \in {x \in before.recipes :
                                TagsOf(before, x.id) \cap req.data[1].tags # {}}}
        /\ \A id \in ListIds(resp) : resp.body[1][id] = 1
\* Two slugs supplied: one recipe carries both, the other only one of them,
\* and each is listed once.
C16_Witness ==
    /\ req.op = "list" /\ req.data[1].tags = Tags
    /\ IsNone(req.data[1].is_favorited) /\ IsNone(req.data[1].is_in_shopping_cart)
    /\ \E i, j \in ListIds(resp) :
          /\ TagsOf(before, i) = Tags /\ Cardinality(TagsOf(before, j)) = 1
          /\ resp.body[1][i] = 1 /\ resp.body[1][j] = 1

\* C17: the recipe a create request stores has the caller as its author,
\* whatever author the payload names; and no create or update request changes
\* the author of a recipe that was stored before it, whatever its payload.
C17_AuthorIsCreator ==
    IsWrite(req) =>
        /\ \A r \in recipes :
              ~RecipeExists(before, r.id) => req.op = "create" /\ r.author = req.caller
        /\ \A r \in before.recipes :
              RecipeExists(DB, r.id) /\ RecipeRow(DB, r.id).author = r.author
\* An update carried out with another user in the payload's author field.
C17_Witness ==
    /\ req.op = "partial_update" /\ resp.status = 200
    /\ req.data[1].author # None
    /\ req.data[1].author # Some(req.caller)
    /\ req.data[1].cooking_time # None
    /\ RecipeRow(DB, req.id).author = req.caller
    /\ RecipeRow(before, req.id).author = req.caller

\* C19: an update that supplies no ingredient list leaves the recipe's
\* RecipeIngredient rows as they were, one that supplies no tags leaves its
\* tag set as it was, and no update changes the rows or tags of another recipe.
C19_UpdateFrame ==
    req.op = "partial_update" =>
        /\ IsNone(req.data[1].ingredients) =>
              IngredientsOf(DB, req.id) = IngredientsOf(before, req.id)
        /\ IsNone(req.data[1].tags) => TagsOf(DB, req.id) = TagsOf(before, req.id)
        /\ \A r \in before.recipes :
              r.id # req.id =>
                  /\ IngredientsOf(DB, r.id) = IngredientsOf(before, r.id)
                  /\ TagsOf(DB, r.id) = TagsOf(before, r.id)
\* An update that replaces the ingredients and supplies no tags, with
\* another recipe stored.
C19_Witness ==
    /\ req.op = "partial_update" /\ resp.status = 200
    /\ req.data[1].ingredients # None /\ req.data[1].tags = None
    /\ IngredientsOf(DB, req.id) # IngredientsOf(before, req.id)
    /\ TagsOf(DB, req.id) = TagsOf(before, req.id) /\ TagsOf(DB, req.id) # {}
    /\ \E r \in recipes : r.id # req.id /\ IngredientsOf(DB, r.id) # {}

\* C18: when two update requests for one recipe were in progress at the same
\* time and both have been answered 200, the recipe's RecipeIngredient rows
\* are exactly the rows of one of the two lists.
C18_OneRequestsRows ==
    \A c, d \in Clients :
        (/\ c # d /\ up[c].id = up[d].id
         /\ up[c].pc = "done" /\ up[c].status = 200 /\ up[c].overlap
         /\ up[d].pc = "done" /\ up[d].status = 200 /\ up[d].overlap) =>
            IngredientsOf(DB, up[c].id) \in {NewRows(up[c].id, up[c].list),
                                             NewRows(up[d].id, up[d].list)}
\* Two overlapping updates with lists of different ingredients, both
\* answered 200; the rows stored are those of one list and not of the other.
C18_Witness ==
    \E c, d \in Clients :
        /\ c # d
        /\ up[c].pc = "done" /\ up[c].status = 200 /\ up[c].overlap
        /\ up[d].pc = "done" /\ up[d].status = 200 /\ up[d].overlap
        /\ {x.ingredient : x \in NewRows(1, up[c].list)}
              \cap {x.ingredient : x \in NewRows(1, up[d].list)} = {}
        /\ IngredientsOf(DB, 1) = NewRows(1, up[d].list)

\* What a download may depend on: the caller's own ShoppingCart rows and the
\* RecipeIngredient rows of the recipes in them. Everything else is erased:
\* other users' cart rows, every Favorite and Follow row, the rows of recipes
\* outside the caller's cart.
OwnCart(D, user) ==
    [EmptyDB EXCEPT
        !.recipes = {r \in D.recipes : r.id \in CartOf(D, user)},
        !.recipeIngredients = {x \in D.recipeIngredients : x.recipe \in CartOf(D, user)},
        !.links = [Favorite |-> NoRows,
                   ShoppingCart |-> [p \in {q \in DOMAIN D.links.ShoppingCart : q[1] = user}
                                       |-> D.links.ShoppingCart[p]]]]
\* C20: the answer to a download is an answer the handler gives in the state
\* that keeps only the caller's cart rows and the ingredient rows of those
\* recipes; so two states that agree on these give the same lines and
\* amounts, or the same empty-cart error, whatever else they store.
C20_DownloadSeesOwnCartOnly ==
    IsDownload(req) =>
        LET D == OwnCart(before, req.caller)
        IN  IF CartOf(D, req.caller) = {}
            THEN resp = Response(400, {"Shopping cart is empty."}, None)
            ELSE /\ resp.status = 200
                 /\ resp.body \in
                       {Some(ShoppingListContent(items)) :
                           items \in OrderByName(Aggregate(JoinCart(D, req.caller)))}
\* A download by a user with one recipe in the cart, while another user has
\* the other recipe in the cart and as a favorite.
C20_Witness ==
    /\ IsDownload(req) /\ resp.status = 200
    /\ Cardinality(CartOf(before, req.caller)) = 1
    /\ \E u \in Users \ {req.caller} :
          /\ CartOf(before, u) # {} /\ CartOf(before, u) \cap CartOf(before, req.caller) = {}
          /\ \E id \in CartOf(before, u) : Rows(before.links.Favorite, u, id) > 0
    /\ Len(resp.body[1].lines) = 1
====
